---- MODULE Spec2Model ----
(***************************************************************************)
(* pdf-json-csv.py: main() creates one assistant, opens the CSV output,    *)
(* and drives every discovered PDF through process_pdf() with up to three  *)
(* attempts and exponential backoff, writing one CSV row per document.     *)
(* The OpenAI client is the environment: every remote call either returns  *)
(* a value chosen from a small set or raises.                              *)
(*                                                                         *)
(* Python dicts are functions from key strings to values.  Every value is  *)
(* kept as the text csv would render.  None is <<>> and a present value v  *)
(* is <<v>> for the variables that can be unset (result, file).            *)
(* Clock: process_pdf reads the clock only as time.time() - start_time;    *)
(* elapsed holds that difference while the polling loop runs.              *)
(* time.sleep(5) advances it by 5 and remote calls take no time.           *)
(* returns, uploaded and deleted are logs of what process_pdf returned and *)
(* of the file calls the service received; the code does not read them.    *)
(***************************************************************************)
EXTENDS Integers, Sequences, FiniteSets, TLC

\* ------------------------------------------------------------ bounds
\* number of *.pdf files the input directory may hold
MaxDocs == 2

\* ------------------------------------------------- program constants
\* line 100: elapsed-time budget of the polling loop
TIMEOUT == 300
\* line 103: polling interval
POLL_INTERVAL == 5
\* line 157: range(3)
MAX_ATTEMPTS == 3

\* lines 29-38: FUNCTION_SCHEMA["parameters"]["properties"].keys()
SchemaFields == {"title", "author", "date", "keywords", "summary", "page_count"}
\* line 141: fieldnames
fieldnames == {"filename"} \cup SchemaFields \cup {"error"}

\* line 99: the statuses that end the polling loop
TerminalStatuses == {"completed", "failed", "cancelled", "expired"}
\* the run statuses the service reports; "in_progress" stands for every
\* status outside the list of line 99 (queued, requires_action, cancelling),
\* which the code does not tell apart
RunStatuses == {"in_progress"} \cup TerminalStatuses

\* the names glob can return, in discovery order
FileNames == <<"a.pdf", "b.pdf", "c.pdf", "d.pdf">>
FileName(i) == FileNames[i]

\* ------------------------------------------------------ error texts
\* str(e) of the exception the client raises when a remote call fails
ConnErr == "Connection error."
\* line 101
TimeoutMsg == "Processing timed out"
\* mutant of StatusMsg: the message does not carry the status
StatusMsg_Generic(s) == "Processing failed"
\* line 111: f"Processing failed with status: {run.status}"
StatusMsg(s) ==
    CASE s = "failed" -> "Processing failed with status: failed"
      [] s = "cancelled" -> "Processing failed with status: cancelled"
      [] s = "expired" -> "Processing failed with status: expired"
      [] OTHER -> "Processing failed with status: other"
\* line 121
NoDataMsg == "No structured data found in response"
\* line 119: str(JSONDecodeError) of json.loads on a malformed object text
JsonErr == "Expecting property name enclosed in double quotes: line 1 column 2 (char 1)"

\* ------------------------------------------------------------ dicts
EmptyDict == [k \in {} |-> ""]
\* dict.update(other): other's items win
DictUpdate(d, other) ==
    [k \in (DOMAIN d) \cup (DOMAIN other) |->
        IF k \in DOMAIN other THEN other[k] ELSE d[k]]
\* d[k] = v
DictSet(d, k, v) == DictUpdate(d, [x \in {k} |-> v])

\* ------------------------------------- payloads the service may return
RecFull ==
    [title |-> "Annual Report", author |-> "J. Doe", date |-> "2023-01-01",
     keywords |-> "['finance', 'growth']", summary |-> "...", page_count |-> "12"]
RecRequired == [title |-> "Memo", author |-> "A. Roe", summary |-> "short"]
RecError == [error |-> "cannot read document", title |-> "Untitled"]
RecExtra == [title |-> "Memo", author |-> "A. Roe", summary |-> "short", pages |-> "3"]

\* a message content item: text (with its first character and, when it is a
\* JSON object text, the object it denotes) or another media type
TextItem(first, wellformed, obj) ==
    [type |-> "text", first |-> first, wellformed |-> wellformed, obj |-> obj]
JsonText(obj) == TextItem("{", TRUE, obj)
BadJsonText == TextItem("{", FALSE, EmptyDict)
ProseText == TextItem("H", FALSE, EmptyDict)
ImageItem == [type |-> "image", first |-> "", wellformed |-> FALSE, obj |-> EmptyDict]

\* what messages.list may return: a sequence of messages, each a sequence of
\* content items
MessageLists ==
    { <<>>,
      << <<ImageItem>>, <<ProseText>> >>,
      << <<ProseText, JsonText(RecFull), JsonText(RecRequired)>> >>,
      << <<JsonText(RecRequired)>>, <<JsonText(RecFull)>> >>,
      << <<JsonText(EmptyDict)>> >>,
      << <<JsonText(RecError)>> >>,
      << <<ImageItem, JsonText(RecExtra)>> >>,
      << <<BadJsonText>>, <<JsonText(RecFull)>> >> }

\* mutant of Flatten: the messages are scanned from the last to the first
RECURSIVE Flatten_Reversed(_)
Flatten_Reversed(msgs) ==
    IF msgs = <<>> THEN <<>> ELSE Flatten_Reversed(Tail(msgs)) \o Head(msgs)
\* lines 115-116: the content items in message order, then item order
RECURSIVE Flatten(_)
Flatten(msgs) ==
    IF msgs = <<>> THEN <<>> ELSE Head(msgs) \o Flatten(Tail(msgs))

\* lines 117-118: isinstance(tool_call, Text) and text.value.startswith("{")
IsCandidate(item) == item.type = "text" /\ item.first = "{"

\* mutant of ScanItems: a candidate that does not parse is skipped
RECURSIVE ScanItems_SkipMalformed(_)
ScanItems_SkipMalformed(items) ==
    IF items = <<>> THEN [raised |-> TRUE, msg |-> NoDataMsg, value |-> EmptyDict]
    ELSE IF IsCandidate(Head(items)) /\ Head(items).wellformed
         THEN [raised |-> FALSE, msg |-> "", value |-> Head(items).obj]
         ELSE ScanItems_SkipMalformed(Tail(items))

\* lines 115-121: the outcome of the scan, [raised, value]: the parse of the
\* first candidate (json.loads raises on a malformed text), or ValueError
RECURSIVE ScanItems(_)
ScanItems(items) ==
    IF items = <<>> THEN [raised |-> TRUE, msg |-> NoDataMsg, value |-> EmptyDict]
    ELSE IF IsCandidate(Head(items))
         THEN IF Head(items).wellformed
              THEN [raised |-> FALSE, msg |-> "", value |-> Head(items).obj]
              ELSE [raised |-> TRUE, msg |-> JsonErr, value |-> EmptyDict]
         ELSE ScanItems(Tail(items))

ExtractPayload(msgs) == ScanItems(Flatten(msgs))

\* line 168: 2 ** attempt
RECURSIVE Pow2(_)
Pow2(n) == IF n = 0 THEN 1 ELSE 2 * Pow2(n - 1)

\* csv.DictWriter(extrasaction="raise"): keys outside fieldnames are refused
WrongFields(d) == (DOMAIN d) \ fieldnames
\* csv.DictWriter._dict_to_list: missing keys are written as restval ""
DictToRow(d) == [k \in fieldnames |-> IF k \in DOMAIN d THEN d[k] ELSE ""]

\* mutant of TimedOut: the budget compared with >= instead of >
TimedOut_AtBudget(el) == el >= TIMEOUT
\* line 100: time.time() - start_time > 300
TimedOut(el) == el > TIMEOUT
\* line 128: 'file' in locals()
NeedsCleanup(f) == f # <<>>
\* line 125: the error descriptor
ErrorResult(msg) == [k \in {"error"} |-> msg]
\* mutant of IsFailure: only a dict holding nothing but "error" is a failure
IsFailure_DescriptorOnly(res) == DOMAIN res = {"error"}
\* line 160: "error" in result
IsFailure(res) == "error" \in DOMAIN res
\* mutant of IsFinalAttempt: the last attempt recognised one attempt late
IsFinalAttempt_OffByOne(a) == a = MAX_ATTEMPTS
\* line 166: attempt == 2
IsFinalAttempt(a) == a = MAX_ATTEMPTS - 1
\* mutant of Backoff: linear instead of exponential
Backoff_Linear(a) == 2 * a
\* line 168: the backoff before the next attempt
Backoff(a) == Pow2(a)
\* lines 162-163: row.update(result); row["error"] = ""
MergeResult(r, res) == DictSet(DictUpdate(r, res), "error", "")
\* mutant of FinalFailure: the failed attempt's payload is merged into the row
FinalFailure_KeepFields(r, res) == DictSet(DictUpdate(r, res), "error", res["error"])
\* line 170: row["error"] = str(e), e the RuntimeError of line 161
FinalFailure(r, res) == DictSet(r, "error", res["error"])
\* line 173: writer.writerow(row) appends one line
WriteRow(table, r) == Append(table, DictToRow(r))
\* the id files.create returns: one fresh id per upload
FileId(doc, att) == <<doc, att>>

VARIABLES
    pc,          \* position in main / process_pdf
    dir_count,   \* number of *.pdf files in INPUT_DIR
    pdf_files,   \* main: list(INPUT_DIR.glob("*.pdf"))
    assistant,   \* main: <<>> or <<id>>
    asst_calls,  \* remote log of assistant calls: "create" / "delete"
    csv_file,    \* "unopened", "open", "closed"
    header,      \* whether the header row is in the output
    rows,        \* the data rows of the output, in file order
    flushed,     \* how many of them csv_file.flush() has made durable
    idx,         \* main: index in pdf_files of the document being processed
    row,         \* main: row dict
    attempt,     \* main: loop variable of range(3)
    result,      \* main: <<>> or <<dict>> returned by process_pdf
    sleeps,      \* the backoff sleeps taken for the current document
    invocations, \* process_pdf calls made for the current document
    returns,     \* what each of them returned, in call order
    file,        \* process_pdf: <<>> or <<file id>>
    status,      \* process_pdf: run.status
    elapsed,     \* process_pdf: time.time() - start_time
    retrievals,  \* runs.retrieve calls made by the polling loop being run
    exc,         \* process_pdf: <<>> or <<str(e)>> of the exception in flight
    uploaded,    \* file ids returned by files.create in the current invocation
    deleted,     \* file ids passed to files.delete in the current invocation
    delete_failed, \* whether files.delete raised in the current invocation
    list_calls,  \* messages.list calls made in the current invocation
    messages,    \* process_pdf: <<>> or <<the list messages.list returned>>
    fatal        \* "" or the place where an exception left main

vars == <<pc, dir_count, pdf_files, assistant, asst_calls, csv_file, header, rows,
          flushed, idx, row, attempt, result, sleeps, invocations, returns, file,
          status, elapsed, retrievals, exc, uploaded, deleted, delete_failed,
          list_calls, messages, fatal>>

mainVars == <<dir_count, pdf_files, assistant, asst_calls, csv_file, header, rows, flushed,
              idx, row, attempt, result, sleeps, invocations, returns, fatal>>
procVars == <<file, status, elapsed, retrievals, exc, uploaded, deleted, delete_failed,
              list_calls, messages>>

Init ==
    /\ pc = "create_assistant"
    /\ dir_count \in 0..MaxDocs
    /\ pdf_files = <<>>
    /\ assistant = <<>>
    /\ asst_calls = <<>>
    /\ csv_file = "unopened"
    /\ header = FALSE
    /\ rows = <<>>
    /\ flushed = 0
    /\ idx = 0
    /\ row = EmptyDict
    /\ attempt = 0
    /\ result = <<>>
    /\ sleeps = <<>>
    /\ invocations = 0
    /\ returns = <<>>
    /\ file = <<>>
    /\ status = ""
    /\ elapsed = 0
    /\ retrievals = 0
    /\ exc = <<>>
    /\ uploaded = <<>>
    /\ delete_failed = FALSE
    /\ list_calls = 0
    /\ messages = <<>>
    /\ deleted = <<>>
    /\ fatal = ""

\* an uncaught exception leaves main at `where`
Crash(where) == /\ pc' = "crashed" /\ fatal' = where

\* ------------------------------------------------------------- main
\* lines 137-138
CreateAssistant ==
    /\ pc = "create_assistant"
    /\ \/ /\ assistant' = <<"asst_1">>
          /\ asst_calls' = Append(asst_calls, "create")
          /\ pc' = "open_csv"
          /\ UNCHANGED fatal
       \/ /\ Crash("create_assistant")
          /\ UNCHANGED <<assistant, asst_calls>>
    /\ UNCHANGED <<dir_count, pdf_files, csv_file, header, rows, flushed, idx, row, attempt,
                   result, sleeps, invocations, returns>>
    /\ UNCHANGED procVars

\* mutant of OpenCsv: the assistant is deleted when the output cannot be opened
OpenCsv_DeletesOnFailure ==
    /\ pc = "open_csv"
    /\ \/ /\ csv_file' = "open"
          /\ header' = TRUE
          /\ pc' = "glob"
          /\ UNCHANGED <<fatal, asst_calls>>
       \/ /\ Crash("open_csv")
          /\ asst_calls' = Append(asst_calls, "delete")
          /\ UNCHANGED <<csv_file, header>>
    /\ UNCHANGED <<dir_count, pdf_files, assistant, rows, flushed, idx, row,
                   attempt, result, sleeps, invocations, returns>>
    /\ UNCHANGED procVars

\* lines 141-144
OpenCsv ==
    /\ pc = "open_csv"
    /\ \/ /\ csv_file' = "open"
          /\ header' = TRUE
          /\ pc' = "glob"
          /\ UNCHANGED fatal
       \/ /\ Crash("open_csv")
          /\ UNCHANGED <<csv_file, header>>
    /\ UNCHANGED <<dir_count, pdf_files, assistant, asst_calls, rows, flushed, idx, row,
                   attempt, result, sleeps, invocations, returns>>
    /\ UNCHANGED procVars

\* mutant of Glob: main returns at line 149 when no document is found
Glob_ReturnOnEmpty ==
    /\ pc = "glob"
    /\ pdf_files' = [i \in 1..dir_count |-> FileName(i)]
    /\ pc' = IF dir_count = 0 THEN "done" ELSE "for"
    /\ UNCHANGED <<dir_count, assistant, asst_calls, csv_file, header, rows, flushed, idx,
                   row, attempt, result, sleeps, invocations, returns, fatal>>
    /\ UNCHANGED procVars

\* lines 147-149: an empty list is only logged
Glob ==
    /\ pc = "glob"
    /\ pdf_files' = [i \in 1..dir_count |-> FileName(i)]
    /\ pc' = "for"
    /\ UNCHANGED <<dir_count, assistant, asst_calls, csv_file, header, rows, flushed, idx,
                   row, attempt, result, sleeps, invocations, returns, fatal>>
    /\ UNCHANGED procVars

\* mutant of ForNext: the loop stops one document early
ForNext_SkipLast ==
    /\ pc = "for"
    /\ IF idx < Len(pdf_files) - 1
       THEN /\ idx' = idx + 1
            /\ row' = [k \in {"filename"} |-> pdf_files[idx + 1]]
            /\ attempt' = 0
            /\ sleeps' = <<>>
            /\ invocations' = 0
            /\ returns' = <<>>
            /\ pc' = "call"
       ELSE /\ pc' = "cleanup"
            /\ UNCHANGED <<idx, row, attempt, sleeps, invocations, returns>>
    /\ UNCHANGED <<dir_count, pdf_files, assistant, asst_calls, csv_file, header,
                   rows, flushed, result, fatal>>
    /\ UNCHANGED procVars

\* lines 151-153, 157: the next document, or the end of the loop
ForNext ==
    /\ pc = "for"
    /\ IF idx < Len(pdf_files)
       THEN /\ idx' = idx + 1
            /\ row' = [k \in {"filename"} |-> pdf_files[idx + 1]]
            /\ attempt' = 0
            /\ sleeps' = <<>>
            /\ invocations' = 0
            /\ returns' = <<>>
            /\ pc' = "call"
       ELSE /\ pc' = "cleanup"
            /\ UNCHANGED <<idx, row, attempt, sleeps, invocations, returns>>
    /\ UNCHANGED <<dir_count, pdf_files, assistant, asst_calls, csv_file, header,
                   rows, flushed, result, fatal>>
    /\ UNCHANGED procVars

\* ------------------------------------------------------ process_pdf
\* line 159: main calls process_pdf(pdf, assistant.id)
Call ==
    /\ pc = "call"
    /\ invocations' = invocations + 1
    /\ file' = <<>>
    /\ status' = ""
    /\ elapsed' = 0
    /\ retrievals' = 0
    /\ exc' = <<>>
    /\ uploaded' = <<>>
    /\ deleted' = <<>>
    /\ delete_failed' = FALSE
    /\ list_calls' = 0
    /\ messages' = <<>>
    /\ pc' = "upload"
    /\ UNCHANGED <<dir_count, pdf_files, assistant, asst_calls, csv_file, header,
                   rows, flushed, idx, row, attempt, result, sleeps, returns, fatal>>

\* a statement of the try block raises: control goes to line 123
Raise(msg) == /\ exc' = <<msg>> /\ pc' = "except"

\* lines 78-80: open the file and upload it
Upload ==
    /\ pc = "upload"
    /\ \/ /\ file' = <<FileId(idx, attempt)>>
          /\ uploaded' = Append(uploaded, FileId(idx, attempt))
          /\ pc' = "create_thread"
          /\ UNCHANGED exc
       \/ /\ Raise(ConnErr)
          /\ UNCHANGED <<file, uploaded>>
    /\ UNCHANGED <<status, elapsed, retrievals, deleted, delete_failed, list_calls, messages>>
    /\ UNCHANGED mainVars

\* lines 83-89
CreateThread ==
    /\ pc = "create_thread"
    /\ \/ /\ pc' = "create_run"
          /\ UNCHANGED exc
       \/ Raise(ConnErr)
    /\ UNCHANGED <<file, status, elapsed, retrievals, uploaded, deleted, delete_failed,
                   list_calls, messages>>
    /\ UNCHANGED mainVars

\* lines 92-98: the run is created with some status; start_time is taken
CreateRun ==
    /\ pc = "create_run"
    /\ \/ /\ \E s \in RunStatuses : status' = s
          /\ elapsed' = 0
          /\ retrievals' = 0
          /\ pc' = "while"
          /\ UNCHANGED exc
       \/ /\ Raise(ConnErr)
          /\ UNCHANGED <<status, elapsed, retrievals>>
    /\ UNCHANGED <<file, uploaded, deleted, delete_failed, list_calls, messages>>
    /\ UNCHANGED mainVars

\* mutant of While: the timeout is checked before the loop test, so a terminal
\* status retrieved after the budget has passed is reported as a timeout
While_TimeoutFirst ==
    /\ pc = "while"
    /\ IF TimedOut(elapsed)
       THEN /\ Raise(TimeoutMsg)
            /\ elapsed' = 0
            /\ retrievals' = 0
       ELSE IF status \notin TerminalStatuses
            THEN /\ pc' = "sleep"
                 /\ UNCHANGED <<exc, elapsed, retrievals>>
            ELSE IF status # "completed"
                 THEN /\ Raise(StatusMsg(status))
                      /\ elapsed' = 0
                      /\ retrievals' = 0
                 ELSE /\ pc' = "list_messages"
                      /\ elapsed' = 0
                      /\ retrievals' = 0
                      /\ UNCHANGED exc
    /\ UNCHANGED <<file, status, uploaded, deleted, delete_failed, list_calls, messages>>
    /\ UNCHANGED mainVars

\* lines 99-101 and 110-111: the loop test, the timeout check, and the status
\* check that follows the loop.  The clock reading is not used after the loop,
\* so elapsed is dropped when the loop is left.
While ==
    /\ pc = "while"
    /\ IF status \notin TerminalStatuses
       THEN IF TimedOut(elapsed)
            THEN /\ Raise(TimeoutMsg)
                 /\ elapsed' = 0
                 /\ retrievals' = 0
            ELSE /\ pc' = "sleep"
                 /\ UNCHANGED <<exc, elapsed, retrievals>>
       ELSE IF status # "completed"
            THEN /\ Raise(StatusMsg(status))
                 /\ elapsed' = 0
                 /\ retrievals' = 0
            ELSE /\ pc' = "list_messages"
                 /\ elapsed' = 0
                 /\ retrievals' = 0
                 /\ UNCHANGED exc
    /\ UNCHANGED <<file, status, uploaded, deleted, delete_failed, list_calls, messages>>
    /\ UNCHANGED mainVars

\* lines 103-107: sleep, then retrieve the run
SleepRetrieve ==
    /\ pc = "sleep"
    /\ \/ /\ \E s \in RunStatuses : status' = s
          /\ elapsed' = elapsed + POLL_INTERVAL
          /\ retrievals' = retrievals + 1
          /\ pc' = "while"
          /\ UNCHANGED exc
       \/ /\ Raise(ConnErr)
          /\ elapsed' = 0
          /\ retrievals' = 0
          /\ UNCHANGED status
    /\ UNCHANGED <<file, uploaded, deleted, delete_failed, list_calls, messages>>
    /\ UNCHANGED mainVars

\* lines 114-121: list the messages and return the first payload
ListMessages ==
    /\ pc = "list_messages"
    /\ list_calls' = list_calls + 1
    /\ \/ \E msgs \in MessageLists :
            LET out == ExtractPayload(msgs) IN
            /\ messages' = <<msgs>>
            /\ IF out.raised
               THEN /\ Raise(out.msg)
                    /\ UNCHANGED result
               ELSE /\ result' = <<out.value>>
                    /\ pc' = "finally"
                    /\ UNCHANGED exc
       \/ /\ Raise(ConnErr)
          /\ UNCHANGED <<result, messages>>
    /\ UNCHANGED <<file, status, elapsed, retrievals, uploaded, deleted, delete_failed>>
    /\ UNCHANGED <<dir_count, pdf_files, assistant, asst_calls, csv_file, header,
                   rows, flushed, idx, row, attempt, sleeps, invocations, returns, fatal>>

\* lines 123-125: every Exception becomes an error descriptor
Except ==
    /\ pc = "except"
    /\ result' = <<ErrorResult(exc[1])>>
    /\ exc' = <<>>
    /\ pc' = "finally"
    /\ UNCHANGED <<file, status, elapsed, retrievals, uploaded, deleted, delete_failed,
                   list_calls, messages>>
    /\ UNCHANGED <<dir_count, pdf_files, assistant, asst_calls, csv_file, header,
                   rows, flushed, idx, row, attempt, sleeps, invocations, returns, fatal>>

\* mutant of Finally: the file is deleted at the end of the try block, so only
\* when no exception was raised
Finally_OnSuccessOnly ==
    /\ pc = "finally"
    /\ IF NeedsCleanup(file) /\ ~IsFailure(result[1])
       THEN /\ deleted' = Append(deleted, file[1])
            /\ delete_failed' \in BOOLEAN
       ELSE UNCHANGED <<deleted, delete_failed>>
    /\ file' = <<>>
    /\ status' = ""
    /\ elapsed' = 0
    /\ retrievals' = 0
    /\ returns' = Append(returns, result[1])
    /\ pc' = "returned"
    /\ UNCHANGED <<exc, uploaded, list_calls, messages>>
    /\ UNCHANGED <<dir_count, pdf_files, assistant, asst_calls, csv_file, header,
                   rows, flushed, idx, row, attempt, result, sleeps, invocations, fatal>>

\* mutant of Finally: an exception of files.delete replaces the return value
Finally_DeleteFailurePropagates ==
    /\ pc = "finally"
    /\ IF NeedsCleanup(file)
       THEN /\ deleted' = Append(deleted, file[1])
            /\ delete_failed' \in BOOLEAN
       ELSE UNCHANGED <<deleted, delete_failed>>
    /\ result' = IF delete_failed' THEN <<ErrorResult(ConnErr)>> ELSE result
    /\ file' = <<>>
    /\ status' = ""
    /\ elapsed' = 0
    /\ retrievals' = 0
    /\ returns' = Append(returns, result'[1])
    /\ pc' = "returned"
    /\ UNCHANGED <<exc, uploaded, list_calls, messages>>
    /\ UNCHANGED <<dir_count, pdf_files, assistant, asst_calls, csv_file, header,
                   rows, flushed, idx, row, attempt, sleeps, invocations, fatal>>

\* lines 126-132: delete the uploaded file; the call returns or raises, and
\* an exception is logged and swallowed (lines 130-131); then the value of
\* the return statement already executed goes back to line 159
Finally ==
    /\ pc = "finally"
    /\ IF NeedsCleanup(file)
       THEN /\ deleted' = Append(deleted, file[1])
            /\ delete_failed' \in BOOLEAN
       ELSE UNCHANGED <<deleted, delete_failed>>
    /\ file' = <<>>
    /\ status' = ""
    /\ elapsed' = 0
    /\ retrievals' = 0
    /\ returns' = Append(returns, result[1])
    /\ pc' = "returned"
    /\ UNCHANGED <<exc, uploaded, list_calls, messages>>
    /\ UNCHANGED <<dir_count, pdf_files, assistant, asst_calls, csv_file, header,
                   rows, flushed, idx, row, attempt, result, sleeps, invocations, fatal>>

\* ------------------------------------------------- main, continued
\* mutant of HandleResult: the row records the error of the first attempt
HandleResult_FirstError ==
    /\ pc = "returned"
    /\ IF IsFailure(result[1])
       THEN IF IsFinalAttempt(attempt)
            THEN /\ row' = FinalFailure(row, returns[1])
                 /\ pc' = "writerow"
                 /\ UNCHANGED <<attempt, sleeps>>
            ELSE /\ sleeps' = Append(sleeps, Backoff(attempt))
                 /\ attempt' = attempt + 1
                 /\ pc' = "call"
                 /\ UNCHANGED row
       ELSE /\ row' = MergeResult(row, result[1])
            /\ pc' = "writerow"
            /\ UNCHANGED <<attempt, sleeps>>
    /\ UNCHANGED <<dir_count, pdf_files, assistant, asst_calls, csv_file, header,
                   rows, flushed, idx, result, invocations, returns, fatal>>
    /\ UNCHANGED procVars

\* mutant of HandleResult: the break of line 164 is missing
HandleResult_NoBreak ==
    /\ pc = "returned"
    /\ IF IsFailure(result[1])
       THEN IF IsFinalAttempt(attempt)
            THEN /\ row' = FinalFailure(row, result[1])
                 /\ pc' = "writerow"
                 /\ UNCHANGED <<attempt, sleeps>>
            ELSE /\ sleeps' = Append(sleeps, Backoff(attempt))
                 /\ attempt' = attempt + 1
                 /\ pc' = "call"
                 /\ UNCHANGED row
       ELSE /\ row' = MergeResult(row, result[1])
            /\ IF IsFinalAttempt(attempt)
               THEN /\ pc' = "writerow"
                    /\ UNCHANGED attempt
               ELSE /\ attempt' = attempt + 1
                    /\ pc' = "call"
            /\ UNCHANGED sleeps
    /\ UNCHANGED <<dir_count, pdf_files, assistant, asst_calls, csv_file, header,
                   rows, flushed, idx, result, invocations, returns, fatal>>
    /\ UNCHANGED procVars

\* lines 160-171: the outcome of one attempt
HandleResult ==
    /\ pc = "returned"
    /\ IF IsFailure(result[1])
       THEN IF IsFinalAttempt(attempt)
            THEN /\ row' = FinalFailure(row, result[1])
                 /\ pc' = "writerow"
                 /\ UNCHANGED <<attempt, sleeps>>
            ELSE /\ sleeps' = Append(sleeps, Backoff(attempt))
                 /\ attempt' = attempt + 1
                 /\ pc' = "call"
                 /\ UNCHANGED row
       ELSE /\ row' = MergeResult(row, result[1])
            /\ pc' = "writerow"
            /\ UNCHANGED <<attempt, sleeps>>
    /\ UNCHANGED <<dir_count, pdf_files, assistant, asst_calls, csv_file, header,
                   rows, flushed, idx, result, invocations, returns, fatal>>
    /\ UNCHANGED procVars

\* mutant of WriteRowFlush: the flush of line 174 is missing
WriteRowFlush_NoFlush ==
    /\ pc = "writerow"
    /\ IF WrongFields(row) = {}
       THEN /\ rows' = WriteRow(rows, row)
            /\ pc' = "for"
            /\ UNCHANGED fatal
       ELSE /\ Crash("writerow")
            /\ UNCHANGED rows
    /\ UNCHANGED <<dir_count, pdf_files, assistant, asst_calls, csv_file, header,
                   flushed, idx, row, attempt, result, sleeps, invocations, returns>>
    /\ UNCHANGED procVars

\* lines 173-174: writerow raises ValueError on a key outside fieldnames,
\* which nothing in main catches; flush makes the written rows durable
WriteRowFlush ==
    /\ pc = "writerow"
    /\ IF WrongFields(row) = {}
       THEN /\ rows' = WriteRow(rows, row)
            /\ flushed' = Len(rows')
            /\ pc' = "for"
            /\ UNCHANGED fatal
       ELSE /\ Crash("writerow")
            /\ UNCHANGED <<rows, flushed>>
    /\ UNCHANGED <<dir_count, pdf_files, assistant, asst_calls, csv_file, header,
                   idx, row, attempt, result, sleeps, invocations, returns>>
    /\ UNCHANGED procVars

\* lines 177-179: close the output and delete the assistant
Cleanup ==
    /\ pc = "cleanup"
    /\ csv_file' = "closed"
    /\ asst_calls' = Append(asst_calls, "delete")
    /\ \/ /\ pc' = "done"
          /\ UNCHANGED fatal
       \/ Crash("delete_assistant")
    /\ UNCHANGED <<dir_count, pdf_files, assistant, header, rows, flushed, idx, row, attempt,
                   result, sleeps, invocations, returns>>
    /\ UNCHANGED procVars

Next ==
    \/ CreateAssistant
    \/ OpenCsv
    \/ Glob
    \/ ForNext
    \/ Call
    \/ Upload
    \/ CreateThread
    \/ CreateRun
    \/ While
    \/ SleepRetrieve
    \/ ListMessages
    \/ Except
    \/ Finally
    \/ HandleResult
    \/ WriteRowFlush
    \/ Cleanup

Spec == Init /\ [][Next]_vars

\* the script is one sequential thread: whenever it has a next statement and
\* every remote call and sleep returns, it executes that statement
FairSpec == Spec /\ WF_vars(Next)

\* ================================================================ claims
\* process_pdf is executing (between line 76 and its return)
InFlight ==
    pc \in {"upload", "create_thread", "create_run", "while", "sleep",
            "list_messages", "except", "finally"}
\* the retry loop of the current document has ended and its row is built
RowBuilt == pc \in {"writerow", "for"} /\ returns # <<>>
\* the row of the current document is in the output
RowWritten == pc = "for" /\ returns # <<>> /\ Len(rows) = idx
LastRow == rows[Len(rows)]
AllFailed(log) == \A i \in 1..Len(log) : IsFailure(log[i])
SchemaEmpty(r) == \A f \in SchemaFields : r[f] = ""
SchemaPopulated(r) == \A f \in SchemaFields : r[f] # ""

\* C1: when main has ended after discovering the documents, whatever the
\* service did, the output holds exactly one row per discovered document, in
\* discovery order.
C1_OneRowPerDocument ==
    (pc \in {"done", "crashed"} /\ fatal \notin {"create_assistant", "open_csv"})
        => /\ Len(rows) = Len(pdf_files)
           /\ \A i \in 1..Len(rows) : rows[i]["filename"] = pdf_files[i]

\* C2: nothing that happens while a document is processed ends main: an
\* exception leaves main only at the creation of the assistant, at the opening
\* of the output, or at the deletion of the assistant once it was reached.
C2_OnlySetupFailuresAbort ==
    pc = "crashed" => fatal \in {"create_assistant", "open_csv", "delete_assistant"}

\* C3 as stated: every written row either has all six schema fields populated
\* and an empty error, or a non-empty error and all schema fields empty.
C3_ExactlyOneOfFieldsOrError ==
    \A i \in 1..Len(rows) :
        \/ SchemaPopulated(rows[i]) /\ rows[i]["error"] = ""
        \/ rows[i]["error"] # "" /\ SchemaEmpty(rows[i])

\* C3 (amended): a written row with a non-empty error has all schema fields
\* empty; a row written for an accepted payload has an empty error and holds
\* exactly the schema fields the payload supplied, the others empty.
C3_ErrorExcludesFields ==
    /\ \A i \in 1..Len(rows) : rows[i]["error"] # "" => SchemaEmpty(rows[i])
    /\ (RowWritten /\ ~IsFailure(returns[Len(returns)])) =>
            /\ LastRow["error"] = ""
            /\ \A f \in SchemaFields :
                  LastRow[f] = IF f \in DOMAIN returns[Len(returns)]
                               THEN returns[Len(returns)][f] ELSE ""
    /\ (RowWritten /\ IsFailure(returns[Len(returns)])) =>
            LastRow["error"] = returns[Len(returns)]["error"]

\* C3 witness: the output holds a failed row and a successful row that has
\* some schema fields populated and others empty.
C3_Witness ==
    \E i, j \in 1..Len(rows) :
        /\ rows[i]["error"] # "" /\ SchemaEmpty(rows[i])
        /\ rows[j]["error"] = "" /\ rows[j]["title"] # "" /\ rows[j]["date"] = ""

\* C4: an invocation of process_pdf issues at most one upload; while it runs
\* its try block no deletion has been issued; when it returns, the deletion
\* calls are exactly the uploaded file's id, once, and none if the upload
\* failed.
C4_DeleteOncePerUpload ==
    /\ Len(uploaded) <= 1
    /\ InFlight => (deleted = <<>> /\ file = uploaded)
    /\ pc = "returned" => deleted = uploaded

\* C4 witness: an invocation that uploaded a file and timed out has returned
\* with exactly that file deleted.
C4_Witness ==
    /\ pc = "returned"
    /\ uploaded = <<FileId(idx, attempt)>>
    /\ deleted = uploaded
    /\ result = <<ErrorResult(TimeoutMsg)>>

\* C5 as stated: once more than 300 time-units have elapsed with no terminal
\* status seen inside the budget, the attempt ends in the timeout error.
C5_TimeoutOnceBudgetPassed ==
    [][(pc = "while" /\ elapsed > TIMEOUT) => exc' = <<TimeoutMsg>>]_vars

\* C5 (amended): the timeout is decided only at the check made before a sleep:
\* with the last status non-terminal and more than 300 elapsed the attempt
\* raises the timeout error, which becomes the returned error descriptor, and
\* the loop never sleeps with more than 300 elapsed; the timeout error arises
\* in no other way; a terminal status seen at the loop test is acted on
\* whatever the elapsed time.
C5_TimeoutAtCheck ==
    [][/\ (pc = "while" /\ status \notin TerminalStatuses /\ elapsed > TIMEOUT)
            => (pc' = "except" /\ exc' = <<TimeoutMsg>>)
       /\ (exc' = <<TimeoutMsg>>)
            => (pc = "while" /\ status \notin TerminalStatuses /\ elapsed > TIMEOUT)
       /\ (pc = "except" /\ exc = <<TimeoutMsg>>)
            => (pc' = "finally" /\ result' = <<ErrorResult(TimeoutMsg)>>)
       /\ pc' = "sleep" => elapsed' <= TIMEOUT
       /\ (pc = "while" /\ status = "completed") => pc' = "list_messages"
       /\ (pc = "while" /\ status \in TerminalStatuses \ {"completed"})
            => exc' = <<StatusMsg(status)>>]_vars

\* C5 witness: the timeout error is in flight.
C5_Witness == pc = "except" /\ exc = <<TimeoutMsg>>

\* the row dict r carries every item of the record rec, an empty error, and
\* the document's file name
CarriesRecord(r, rec) ==
    /\ DOMAIN r = (DOMAIN rec) \cup {"filename", "error"}
    /\ r["error"] = ""
    /\ \A k \in DOMAIN rec : r[k] = rec[k]
    /\ "filename" \notin DOMAIN rec => r["filename"] = pdf_files[idx]
\* the last line of the output is the row dict r as csv writes it
WrittenAs(r) ==
    /\ Len(rows) = idx
    /\ \A f \in fieldnames : LastRow[f] = IF f \in DOMAIN r THEN r[f] ELSE ""

\* C6: a document whose first and second attempts fail and whose third
\* succeeds yields a row carrying the third attempt's record with an empty
\* error; its backoff sleeps are exactly 1 then 2, the k-th one after the k-th
\* attempt returned and before the next attempt is called.
C6_ThirdAttemptSucceeds ==
    /\ Len(sleeps) <= Len(returns)
    /\ invocations <= Len(sleeps) + 1
    /\ (/\ RowBuilt
        /\ Len(returns) = 3
        /\ IsFailure(returns[1]) /\ IsFailure(returns[2]) /\ ~IsFailure(returns[3]))
       => /\ CarriesRecord(row, returns[3])
          /\ sleeps = <<1, 2>>
          /\ pc = "for" => WrittenAs(row)

\* C6 witness: two failed attempts, a third that returned the full record,
\* and the row written with that record.
C6_Witness ==
    /\ RowWritten
    /\ Len(returns) = 3
    /\ IsFailure(returns[1]) /\ IsFailure(returns[2])
    /\ returns[3] = RecFull
    /\ LastRow["title"] = "Annual Report" /\ LastRow["error"] = ""
    /\ sleeps = <<1, 2>>

\* C7: a document whose three attempts all fail yields a row whose error is
\* the third attempt's message and whose schema fields are all empty.
C7_FinalAttemptError ==
    (RowBuilt /\ Len(returns) = 3 /\ AllFailed(returns))
       => /\ DOMAIN row = {"filename", "error"}
          /\ row["filename"] = pdf_files[idx]
          /\ row["error"] = returns[3]["error"]
          /\ pc = "for" => (WrittenAs(row) /\ SchemaEmpty(LastRow)
                              /\ LastRow["error"] = returns[3]["error"])

\* C7 witness: three failed attempts with three different messages, the row
\* written with the third.
C7_Witness ==
    /\ RowWritten
    /\ Len(returns) = 3 /\ AllFailed(returns)
    /\ returns[1]["error"] # returns[3]["error"]
    /\ returns[2]["error"] # returns[3]["error"]
    /\ returns[1]["error"] # returns[2]["error"]
    /\ LastRow["error"] = returns[3]["error"]

\* C8: process_pdf is called at most 3 times per document; a document whose
\* attempts all fail is attempted exactly 3 times with exactly 2 sleeps; once
\* the retry loop has ended the sleeps are one fewer than the attempts, so no
\* sleep follows the last attempt.
C8_AtMostThreeAttempts ==
    /\ invocations <= 3
    /\ Len(returns) <= invocations
    /\ (pc \in {"returned", "writerow"} \/ RowBuilt) =>
            (Len(returns) = invocations /\ Len(sleeps) = invocations - 1)
    /\ (RowBuilt /\ AllFailed(returns)) => (invocations = 3 /\ sleeps = <<1, 2>>)

\* C8 witness: a document whose upload failed on every attempt, written after
\* three attempts and two sleeps.
C8_Witness ==
    /\ RowWritten
    /\ invocations = 3
    /\ \A i \in 1..3 : returns[i] = ErrorResult(ConnErr)
    /\ uploaded = <<>>
    /\ sleeps = <<1, 2>>
    /\ LastRow["error"] = ConnErr /\ SchemaEmpty(LastRow)

C10_FirstSuccessStops ==
    (returns # <<>> /\ ~IsFailure(returns[1]))
       => /\ Len(returns) = 1 /\ invocations = 1 /\ attempt = 0
          /\ sleeps = <<>>
          /\ ~InFlight /\ pc # "call"
          /\ uploaded = <<FileId(idx, 0)>> /\ deleted = uploaded
          /\ RowBuilt => CarriesRecord(row, returns[1])
          /\ RowWritten => WrittenAs(row)

\* C10 witness: the first attempt returned the full record and the row is
\* written after one upload, one deletion and no sleep.
C10_Witness ==
    /\ RowWritten
    /\ returns = <<RecFull>>
    /\ LastRow["title"] = "Annual Report" /\ LastRow["error"] = ""
    /\ sleeps = <<>>
    /\ Len(uploaded) = 1 /\ deleted = uploaded

\* C11: whenever an attempt for a document is being made (from the call of
\* process_pdf to its return) the rows of all earlier documents are in the
\* output, in order, and flushed.
C11_EarlierRowsDurable ==
    (InFlight \/ pc \in {"call", "returned"})
       => /\ Len(rows) = idx - 1
          /\ flushed = idx - 1
          /\ \A i \in 1..(idx - 1) : rows[i]["filename"] = pdf_files[i]

\* C11 witness: the upload for the second document is about to be made and
\* the first document's row is written and flushed.
C11_Witness ==
    /\ pc = "upload"
    /\ idx = 2
    /\ Len(rows) = 1 /\ flushed = 1
    /\ rows[1]["filename"] = pdf_files[1]

\* C12: the step of the finally block never changes the value process_pdf
\* returns, whether files.delete returns or raises; it issues at most one
\* deletion call; and a successful attempt whose deletion failed is followed
\* by the writing of the row, not by another attempt.
C12_DeleteFailureKeepsOutcome ==
    [][/\ pc = "finally"
          => /\ result' = result
             /\ returns' = Append(returns, result[1])
             /\ pc' = "returned"
             /\ Len(deleted') <= 1
       /\ (pc = "returned" /\ delete_failed /\ ~IsFailure(result[1]))
          => /\ pc' = "writerow"
             /\ invocations' = invocations
             /\ CarriesRecord(row', result[1])]_vars

\* C12 witness: process_pdf has returned a record although the deletion of
\* its uploaded file raised.
C12_Witness ==
    /\ pc = "returned"
    /\ delete_failed
    /\ deleted = uploaded /\ Len(deleted) = 1
    /\ result = <<RecFull>>

\* main has stopped, by reaching its last line or by an uncaught exception
Exited == pc \in {"done", "crashed"}

\* C13, termination alone: when every call returns, main eventually stops,
\* and so does every process_pdf invocation and every polling loop in it.
C13_MainExits == <>Exited

\* C13: once the assistant is created and the output is open, main exits only
\* with one flushed row for every discovered document and with the deletion
\* call for the assistant made.
C13_ExitsComplete ==
    (Exited /\ fatal \notin {"create_assistant", "open_csv"})
        => /\ Len(rows) = Len(pdf_files)
           /\ flushed = Len(pdf_files)
           /\ asst_calls = <<"create", "delete">>

\* C14: with no PDF in the input directory process_pdf is never entered, so no
\* upload, thread, run or file-deletion call is made; once the output is open
\* it holds the header and never a data row; and when main has exited after
\* its setup the assistant was created once and its deletion called once.
C14_EmptyDirectory ==
    dir_count = 0 =>
        /\ ~InFlight /\ pc \notin {"call", "returned", "writerow"}
        /\ invocations = 0 /\ returns = <<>>
        /\ uploaded = <<>> /\ deleted = <<>>
        /\ rows = <<>>
        /\ csv_file # "unopened" => header
        /\ (Exited /\ fatal \notin {"create_assistant", "open_csv"})
              => /\ asst_calls = <<"create", "delete">>
                 /\ header

\* C14 witness: main has run to its end on an empty directory.
C14_Witness ==
    /\ pc = "done"
    /\ dir_count = 0 /\ pdf_files = <<>>
    /\ header /\ rows = <<>>
    /\ asst_calls = <<"create", "delete">>

\* the message each terminal status other than completed must produce
StatusErrorText ==
    [failed |-> "Processing failed with status: failed",
     cancelled |-> "Processing failed with status: cancelled",
     expired |-> "Processing failed with status: expired"]
StatusErrors == {ErrorResult(StatusErrorText[s]) : s \in DOMAIN StatusErrorText}

\* C15: when the polling loop is left with status failed, cancelled or
\* expired, the next step raises the error naming that status, which becomes
\* the returned error descriptor; messages.list is not called in that
\* invocation; main retries after such a return unless it was the third
\* attempt, whose message becomes the row's error.
C15_StatusErrorRetried ==
    [][/\ (pc = "while" /\ status \in DOMAIN StatusErrorText)
          => /\ pc' = "except"
             /\ exc' = <<StatusErrorText[status]>>
             /\ list_calls' = 0
       /\ (pc = "except" /\ ErrorResult(exc[1]) \in StatusErrors)
          => /\ result' = <<ErrorResult(exc[1])>>
             /\ list_calls' = 0 /\ messages' = <<>>
       /\ (pc = "finally" /\ result[1] \in StatusErrors)
          => /\ returns' = Append(returns, result[1])
             /\ list_calls' = 0 /\ messages' = <<>>
       /\ (pc = "returned" /\ result[1] \in StatusErrors)
          => IF attempt < MAX_ATTEMPTS - 1
             THEN /\ pc' = "call"
                  /\ attempt' = attempt + 1
                  /\ row' = row
             ELSE /\ pc' = "writerow"
                  /\ row' = [filename |-> pdf_files[idx],
                             error |-> result[1]["error"]]]_vars

\* C15 witness: the first attempt returned the descriptor naming the status
\* cancelled without a messages.list call, and the second attempt is about to
\* be made after the first backoff.
C15_Witness ==
    /\ pc = "call"
    /\ attempt = 1
    /\ returns = <<ErrorResult("Processing failed with status: cancelled")>>
    /\ sleeps = <<1>>
    /\ list_calls = 0

\* the positions <<message, item>> of the text items beginning with "{"
CandidatePositions(msgs) ==
    UNION {{<<m, i>> : i \in {j \in DOMAIN msgs[m] :
                                /\ msgs[m][j].type = "text"
                                /\ msgs[m][j].first = "{"}} : m \in DOMAIN msgs}
\* position p comes before position q in message order, then item order
Before(p, q) == p[1] < q[1] \/ (p[1] = q[1] /\ p[2] < q[2])
FirstPosition(msgs) ==
    CHOOSE p \in CandidatePositions(msgs) :
        \A q \in CandidatePositions(msgs) : p = q \/ Before(p, q)
FirstCandidate(msgs) == msgs[FirstPosition(msgs)[1]][FirstPosition(msgs)[2]]
\* messages.list returned in the current invocation and the scan has ended
Scanned == pc \in {"except", "finally", "returned"} /\ messages # <<>>
\* what the current invocation returns or is about to return
Outcome == IF pc = "except" THEN ErrorResult(exc[1]) ELSE result[1]

\* C16: after messages.list returned, the outcome of the invocation is the
\* object of the first text item beginning with "{" in message order then
\* item order, whatever follows it, when that item parses; and it is the
\* error "No structured data found in response" when no item qualifies.
C16_FirstCandidateReturned ==
    Scanned =>
        IF CandidatePositions(messages[1]) = {}
        THEN Outcome = [error |-> "No structured data found in response"]
        ELSE FirstCandidate(messages[1]).wellformed
                => /\ pc # "except"
                   /\ Outcome = FirstCandidate(messages[1]).obj

\* C16 witness: the list held two candidates in two messages and the
\* invocation returned the object of the first.
C16_Witness ==
    /\ pc = "returned"
    /\ messages = << << <<JsonText(RecRequired)>>, <<JsonText(RecFull)>> >> >>
    /\ result = <<RecRequired>>

\* the statuses of the list of line 99, written out
Terminal == {"completed", "failed", "cancelled", "expired"}

\* C17: in the polling loop the elapsed time is 5 times the number of
\* retrievals made; the loop sleeps exactly when the status is not terminal
\* and the elapsed time is at most 300, so the checks at 0, 5, ..., 300 pass;
\* the timeout is raised only after 61 retrievals, at elapsed 305, on a
\* non-terminal status; a terminal status is never followed by a sleep or by
\* the timeout, at any elapsed time up to 305; a run terminal at creation is
\* neither retrieved nor slept on.
C17_SixtyOneRetrievals ==
    [][/\ pc \in {"while", "sleep"}
          => /\ elapsed = 5 * retrievals
             /\ retrievals <= 61
       /\ pc = "while"
          => /\ (status \notin Terminal /\ elapsed <= 300) => pc' = "sleep"
             /\ pc' = "sleep" => (status \notin Terminal /\ elapsed <= 300)
             /\ exc' = <<"Processing timed out">>
                  => (status \notin Terminal /\ retrievals = 61 /\ elapsed = 305)
             /\ (status \notin Terminal /\ elapsed = 305)
                  => exc' = <<"Processing timed out">>
             /\ status \in Terminal
                  => /\ pc' \in {"except", "list_messages"}
                     /\ exc' # <<"Processing timed out">>
       /\ (pc = "create_run" /\ pc' = "while") => retrievals' = 0]_vars

\* C17 witness: the 61st retrieval, at elapsed 305, returned a terminal status
\* and the loop test is about to accept it.
C17_Witness ==
    /\ pc = "while"
    /\ retrievals = 61 /\ elapsed = 305
    /\ status = "completed"

\* the payload of a completed run that holds the key "error" and a field
ErrorPayload == [error |-> "cannot read document", title |-> "Untitled"]

\* C18: a returned payload holding the key "error" is handled as a failed
\* attempt: the next step is a retry (after the backoff, the row untouched)
\* unless it was the third attempt, and then the row holds the file name and
\* the payload's error value only; the row written for it has every schema
\* field empty.
C18_ErrorPayloadIsFailure ==
    [][/\ (pc = "returned" /\ result = <<ErrorPayload>>)
          => IF attempt < 2
             THEN /\ pc' = "call"
                  /\ attempt' = attempt + 1
                  /\ sleeps' = Append(sleeps, Backoff(attempt))
                  /\ row' = row /\ rows' = rows
             ELSE /\ pc' = "writerow"
                  /\ row' = [filename |-> pdf_files[idx],
                             error |-> "cannot read document"]
       /\ (pc = "writerow" /\ returns[Len(returns)] = ErrorPayload)
          => /\ Len(returns) = 3
             /\ pc' = "for"
             /\ rows' = Append(rows, [k \in fieldnames |->
                              CASE k = "filename" -> pdf_files[idx]
                                [] k = "error" -> "cannot read document"
                                [] OTHER -> ""])]_vars

\* C18 witness: the third attempt returned the payload with the key "error"
\* and the row is written with its error value and no title.
C18_Witness ==
    /\ RowWritten
    /\ Len(returns) = 3 /\ returns[3] = ErrorPayload
    /\ messages = << << <<JsonText(ErrorPayload)>> >> >>
    /\ LastRow["error"] = "cannot read document"
    /\ LastRow["title"] = ""

\* messages.list returned a list whose first candidate does not parse
FirstCandidateMalformed ==
    /\ messages # <<>>
    /\ CandidatePositions(messages[1]) # {}
    /\ ~FirstCandidate(messages[1]).wellformed

\* C19: when the first text item beginning with "{" does not parse, the
\* invocation ends with the parser's message as its error descriptor, whatever
\* follows that item; the uploaded file is passed to files.delete once before
\* the return; and main retries unless it was the third attempt, whose
\* message becomes the row's error.
C19_MalformedFirstCandidate ==
    [][/\ (Scanned /\ FirstCandidateMalformed)
          => /\ Outcome = [error |-> JsonErr]
             /\ Len(uploaded) = 1
             /\ pc = "returned" => deleted = uploaded
       /\ (pc = "finally" /\ FirstCandidateMalformed)
          => /\ deleted' = uploaded
             /\ returns' = Append(returns, [error |-> JsonErr])
       /\ (pc = "returned" /\ FirstCandidateMalformed)
          => IF attempt < 2
             THEN /\ pc' = "call"
                  /\ attempt' = attempt + 1
                  /\ row' = row
             ELSE /\ pc' = "writerow"
                  /\ row' = [filename |-> pdf_files[idx], error |-> JsonErr]]_vars

\* C19 witness: the first attempt met a malformed first candidate followed by
\* a well-formed payload, returned the parser's error after deleting the
\* upload, and the second attempt is about to be made.
C19_Witness ==
    /\ pc = "call"
    /\ attempt = 1
    /\ messages = << << <<BadJsonText>>, <<JsonText(RecFull)>> >> >>
    /\ returns = <<ErrorResult(JsonErr)>>
    /\ Len(uploaded) = 1 /\ deleted = uploaded

\* assistants.delete has been called
DeleteCalled == \E i \in DOMAIN asst_calls : asst_calls[i] = "delete"

\* C20: assistants.delete is called only by the last statement of main, after
\* the loop over all documents; when the opening of the output raises after
\* the assistant was created, main has stopped with the assistant created and
\* never deleted, no process_pdf call, no upload and no row.
C20_DeleteOnlyAtEnd ==
    /\ DeleteCalled
          => /\ Exited /\ fatal \in {"", "delete_assistant"}
             /\ idx = Len(pdf_files) /\ Len(rows) = Len(pdf_files)
    /\ (Exited /\ fatal \in {"open_csv", "writerow"}) => ~DeleteCalled
    /\ fatal = "open_csv"
          => /\ pc = "crashed" /\ ~ENABLED Next
             /\ asst_calls = <<"create">> /\ assistant # <<>>
             /\ csv_file = "unopened" /\ ~header
             /\ invocations = 0 /\ uploaded = <<>> /\ rows = <<>>

\* C20 witness: main has stopped at the opening of the output, the assistant
\* created and not deleted.
C20_Witness ==
    /\ pc = "crashed"
    /\ fatal = "open_csv"
    /\ asst_calls = <<"create">>
    /\ uploaded = <<>>
====
